---- MODULE Spec2Model ----
(***************************************************************************)
(* Model of p3.py: Inventory, pricing (apply_coupon, compute_tax),         *)
(* BankAccount, calculate_subtotal and process_order.                      *)
(*                                                                         *)
(* Money is an exact decimal amount counted in mills (1/1000 of a currency *)
(* unit; 10 mills = 1 cent), so 10.5 is 10500.  Python floats are modelled *)
(* as exact decimals; the one place where the binary representation        *)
(* decides the outcome, round(tax, 2) on a decimal tie, is a choice        *)
(* between the two neighbouring cents.  NaN and infinities are outside the *)
(* modelled amounts.                                                       *)
(*                                                                         *)
(* Optional[str] is a sequence of length at most one: <<>> is None and     *)
(* <<s>> is the string s, itself a sequence of one-character strings.      *)
(* An exception is a record [type, msg]; NoError means the call returned.  *)
(*                                                                         *)
(* op, arg, err and ret hold the call that has just been made, its         *)
(* argument, the exception it raised and the value it returned; Return     *)
(* hands them to the caller.  ledger is an auxiliary tally of the          *)
(* successful add_stock and remove_stock calls per identifier, kept only   *)
(* in SpecInv.                                                             *)
(***************************************************************************)
EXTENDS Integers, Sequences, FiniteSets, TLC

VARIABLES inv, payer, op, arg, err, ret, ledger

vars == <<inv, payer, op, arg, err, ret, ledger>>

\* ---------------------------------------------------------------- bounds
MaxItems == 2
MaxQty == 2
MaxStock == 2
MaxBalance == 177000
MaxSubtotal == 26

\* ------------------------------------------------------ program constants
RatePct == 18
Save10Pct == 10
Flat50Off == 50000
Flat50Min == 200000

\* --------------------------------------------------------------- values
None == <<>>
Some(s) == <<s>>

NoError == [type |-> "", msg |-> ""]
Raise(t, m) == [type |-> t, msg |-> m]

Max(a, b) == IF a >= b THEN a ELSE b

\* ------------------------------------------------------------ str methods
LowerToUpper ==
  [a |-> "A", b |-> "B", e |-> "E", f |-> "F", g |-> "G", l |-> "L",
   o |-> "O", s |-> "S", t |-> "T", u |-> "U", v |-> "V"]

upper(s) ==
  [i \in 1..Len(s) |-> IF s[i] \in DOMAIN LowerToUpper THEN LowerToUpper[s[i]] ELSE s[i]]

RECURSIVE lstrip(_)
lstrip(s) == IF s # <<>> /\ Head(s) = " " THEN lstrip(Tail(s)) ELSE s

RECURSIVE rstrip(_)
rstrip(s) ==
  IF s # <<>> /\ s[Len(s)] = " " THEN rstrip(SubSeq(s, 1, Len(s) - 1)) ELSE s

strip(s) == rstrip(lstrip(s))

SAVE10 == <<"S", "A", "V", "E", "1", "0">>
FLAT50 == <<"F", "L", "A", "T", "5", "0">>

\* ------------------------------------------------------------- Inventory
EmptyDict == [x \in {} |-> 0]

EmptyInventory == [stock |-> EmptyDict, catalog |-> EmptyDict]

has_sku(i, sku) == sku \in DOMAIN i.catalog

get_stock(i, sku) == IF sku \in DOMAIN i.stock THEN i.stock[sku] ELSE 0

get_price(i, sku) == i.catalog[sku].price

SetItem(d, k, v) == [x \in (DOMAIN d) \cup {k} |-> IF x = k THEN v ELSE d[x]]

add_product(i, product) ==
  LET cat == SetItem(i.catalog, product.sku, product)
      stk == IF product.sku \notin DOMAIN i.stock
             THEN SetItem(i.stock, product.sku, 0)
             ELSE i.stock
  IN [err |-> NoError, inv |-> [stock |-> stk, catalog |-> cat]]

\* Mutant: the new quantity overwrites the stock instead of adding to it.
add_stock_overwrites(i, sku, qty) ==
  IF qty <= 0 THEN [err |-> Raise("ValueError", "qty must be positive"), inv |-> i]
  ELSE IF sku \notin DOMAIN i.catalog
  THEN [err |-> Raise("KeyError", "unknown sku"), inv |-> i]
  ELSE [err |-> NoError, inv |-> [i EXCEPT !.stock = SetItem(i.stock, sku, qty)]]

add_stock(i, sku, qty) ==
  IF qty <= 0 THEN [err |-> Raise("ValueError", "qty must be positive"), inv |-> i]
  ELSE IF sku \notin DOMAIN i.catalog
  THEN [err |-> Raise("KeyError", "unknown sku"), inv |-> i]
  ELSE [err |-> NoError,
        inv |-> [i EXCEPT !.stock = SetItem(i.stock, sku, get_stock(i, sku) + qty)]]

\* Mutant: no check against the current stock.
remove_stock_allows_negative(i, sku, qty) ==
  IF qty <= 0 THEN [err |-> Raise("ValueError", "qty must be positive"), inv |-> i]
  ELSE [err |-> NoError,
        inv |-> [i EXCEPT !.stock = SetItem(i.stock, sku, get_stock(i, sku) - qty)]]

remove_stock(i, sku, qty) ==
  IF qty <= 0 THEN [err |-> Raise("ValueError", "qty must be positive"), inv |-> i]
  ELSE IF get_stock(i, sku) < qty
  THEN [err |-> Raise("ValueError", "insufficient stock"), inv |-> i]
  ELSE [err |-> NoError,
        inv |-> [i EXCEPT !.stock = SetItem(i.stock, sku, get_stock(i, sku) - qty)]]

\* --------------------------------------------------------------- pricing
\* Mutant: FLAT50 needs a subtotal above, not at, its minimum.
apply_coupon_strict_minimum(subtotal, code) ==
  IF code = None \/ code = Some(<<>>) THEN subtotal
  ELSE LET c == upper(strip(code[1]))
       IN IF c = SAVE10
          THEN Max(subtotal - (subtotal * Save10Pct) \div 100, 0)
          ELSE IF c = FLAT50
          THEN IF subtotal > Flat50Min
               THEN Max(subtotal - Flat50Off, 0)
               ELSE subtotal
          ELSE subtotal

apply_coupon(subtotal, code) ==
  IF code = None \/ code = Some(<<>>) THEN subtotal
  ELSE LET c == upper(strip(code[1]))
       IN IF c = SAVE10
          THEN Max(subtotal - (subtotal * Save10Pct) \div 100, 0)
          ELSE IF c = FLAT50
          THEN IF subtotal >= Flat50Min
               THEN Max(subtotal - Flat50Off, 0)
               ELSE subtotal
          ELSE subtotal

\* round(x, 2) of x = n / 100 mills: the nearest cent (10 mills); on a
\* decimal tie the float product lies just above or just below the tie.
round2(n) ==
  LET q == n \div 1000
      r == n % 1000
  IN IF r < 500 THEN {q * 10}
     ELSE IF r > 500 THEN {(q + 1) * 10}
     ELSE {q * 10, (q + 1) * 10}

compute_tax(amount) == round2(amount * RatePct)

\* ------------------------------------------------------------ BankAccount
Num(n) == [kind |-> "num", val |-> n]
Str(n) == [kind |-> "str", val |-> n]

BankAccount(owner, balance) == [owner |-> owner, balance |-> balance]

\* Mutant: a string is converted and deposited silently.
deposit_accepts_strings(acct, amount) ==
  IF amount.val <= 0
  THEN [err |-> Raise("ValueError", "Deposit must be positive"), payer |-> acct]
  ELSE [err |-> NoError, payer |-> [acct EXCEPT !.balance = @ + amount.val]]

deposit(acct, amount) ==
  IF amount.kind # "num"
  THEN [err |-> Raise("TypeError", "amount must be numeric"), payer |-> acct]
  ELSE IF amount.val <= 0
  THEN [err |-> Raise("ValueError", "Deposit must be positive"), payer |-> acct]
  ELSE [err |-> NoError, payer |-> [acct EXCEPT !.balance = @ + amount.val]]

\* Mutant: the funds comparison points the wrong way.
withdraw_wrong_direction(acct, amount) ==
  IF amount <= 0
  THEN [err |-> Raise("ValueError", "Withdraw must be positive"), payer |-> acct]
  ELSE IF amount < acct.balance
  THEN [err |-> Raise("ValueError", "Insufficient funds"), payer |-> acct]
  ELSE [err |-> NoError, payer |-> [acct EXCEPT !.balance = @ - amount]]

\* Mutant: no check that the amount is positive.
withdraw_any_sign(acct, amount) ==
  IF amount > acct.balance
  THEN [err |-> Raise("ValueError", "Insufficient funds"), payer |-> acct]
  ELSE [err |-> NoError, payer |-> [acct EXCEPT !.balance = @ - amount]]

withdraw(acct, amount) ==
  IF amount <= 0
  THEN [err |-> Raise("ValueError", "Withdraw must be positive"), payer |-> acct]
  ELSE IF amount > acct.balance
  THEN [err |-> Raise("ValueError", "Insufficient funds"), payer |-> acct]
  ELSE [err |-> NoError, payer |-> [acct EXCEPT !.balance = @ - amount]]

\* --------------------------------------------------------------- ordering
Product(sku, name, price, category) ==
  [sku |-> sku, name |-> name, price |-> price, category |-> category]

OrderItem(sku, qty) == [sku |-> sku, qty |-> qty]

Order(order_id, items, coupon_code) ==
  [order_id |-> order_id, items |-> items, coupon_code |-> coupon_code]

\* Mutant: every quantity counted one too many.
RECURSIVE subtotal_loop_off_by_one(_, _, _, _)
subtotal_loop_off_by_one(items, k, i, subtotal) ==
  IF k > Len(items) THEN [err |-> NoError, val |-> subtotal]
  ELSE IF ~has_sku(i, items[k].sku)
  THEN [err |-> Raise("KeyError", "unknown sku"), val |-> subtotal]
  ELSE subtotal_loop_off_by_one(items, k + 1, i,
                     subtotal + (items[k].qty + 1) * get_price(i, items[k].sku))

RECURSIVE subtotal_loop(_, _, _, _)
subtotal_loop(items, k, i, subtotal) ==
  IF k > Len(items) THEN [err |-> NoError, val |-> subtotal]
  ELSE IF ~has_sku(i, items[k].sku)
  THEN [err |-> Raise("KeyError", "unknown sku"), val |-> subtotal]
  ELSE subtotal_loop(items, k + 1, i,
                     subtotal + items[k].qty * get_price(i, items[k].sku))

calculate_subtotal(order, i) == subtotal_loop(order.items, 1, i, 0)

\* Mutant: the stock of an item is not checked.
RECURSIVE validate_loop_skus_only(_, _, _)
validate_loop_skus_only(items, k, i) ==
  IF k > Len(items) THEN NoError
  ELSE IF ~has_sku(i, items[k].sku) THEN Raise("KeyError", "unknown sku")
  ELSE validate_loop_skus_only(items, k + 1, i)

RECURSIVE validate_loop(_, _, _)
validate_loop(items, k, i) ==
  IF k > Len(items) THEN NoError
  ELSE IF ~has_sku(i, items[k].sku) THEN Raise("KeyError", "unknown sku")
  ELSE IF get_stock(i, items[k].sku) < items[k].qty
  THEN Raise("ValueError", "out of stock")
  ELSE validate_loop(items, k + 1, i)

RECURSIVE decrement_loop(_, _, _)
decrement_loop(items, k, i) ==
  IF k > Len(items) THEN [err |-> NoError, inv |-> i]
  ELSE LET r == remove_stock(i, items[k].sku, items[k].qty)
       IN IF r.err # NoError THEN r ELSE decrement_loop(items, k + 1, r.inv)

Receipt(order, subtotal, discounted, tax, grand_total) ==
  [order_id |-> order.order_id,
   items |-> order.items,
   subtotal |-> subtotal,
   discounted |-> discounted,
   tax |-> tax,
   grand_total |-> grand_total,
   coupon_code |-> IF order.coupon_code = None THEN <<>> ELSE order.coupon_code[1]]

Failed(e, i, acct) == [err |-> e, inv |-> i, payer |-> acct, ret |-> None]

\* Mutant: the stock is decremented before the payer is charged.
decrement_then_charge(order, i, acct, subtotal, discounted, tax) ==
  LET grand_total == discounted + tax
      r == decrement_loop(order.items, 1, i)
  IN IF r.err # NoError THEN Failed(r.err, r.inv, acct)
     ELSE LET w == withdraw(acct, grand_total)
          IN IF w.err # NoError THEN Failed(w.err, r.inv, acct)
             ELSE [err |-> NoError, inv |-> r.inv, payer |-> w.payer,
                   ret |-> Some(Receipt(order, subtotal, discounted, tax, grand_total))]

charge_and_decrement(order, i, acct, subtotal, discounted, tax) ==
  LET grand_total == discounted + tax
      w == withdraw(acct, grand_total)
  IN IF w.err # NoError THEN Failed(w.err, i, acct)
     ELSE LET r == decrement_loop(order.items, 1, i)
          IN IF r.err # NoError THEN Failed(r.err, r.inv, w.payer)
             ELSE [err |-> NoError, inv |-> r.inv, payer |-> w.payer,
                   ret |-> Some(Receipt(order, subtotal, discounted, tax, grand_total))]

\* The set of outcomes of one call (more than one only on a rounding tie).
process_order(order, i, acct) ==
  LET v == validate_loop(order.items, 1, i)
  IN IF v # NoError THEN {Failed(v, i, acct)}
     ELSE LET st == calculate_subtotal(order, i)
          IN IF st.err # NoError THEN {Failed(st.err, i, acct)}
             ELSE LET discounted == apply_coupon(st.val, order.coupon_code)
                  IN {charge_and_decrement(order, i, acct, st.val, discounted, tax) :
                        tax \in compute_tax(discounted)}

\* ------------------------------------------------------------ input sets
SKUs == {"SKU1", "SKU2"}

Products ==
  {Product("SKU1", "Pen", 50000, "stationery"),
   Product("SKU2", "Book", 100000, "books")}

QtyRange == (0 - 1)..MaxQty

Items == {OrderItem(s, q) : s \in SKUs, q \in QtyRange}

ItemSeqs == UNION {[1..n -> Items] : n \in 0..MaxItems}

OrdersWith(codes) == {Order("ORD-001", its, c) : its \in ItemSeqs, c \in codes}

\* With prices of 50 and 100 every grand total without SAVE10 is a multiple
\* of 59, which keeps the reachable balances few.
OrderCodes == {None, Some(FLAT50)}

Orders == OrdersWith(OrderCodes)

OpeningBalances == {0, 118000}

DepositAmounts == {Num(0 - 5000), Num(0), Num(59000), Str(10)}

WithdrawAmounts == {0 - 5000, 0, 59000, 1000000}

\* ---------------------------------------------------------------- actions
Book(l, sku, delta) ==
  IF ~l.on THEN l
  ELSE [l EXCEPT !.net =
          SetItem(l.net, sku, (IF sku \in DOMAIN l.net THEN l.net[sku] ELSE 0) + delta)]

Idle ==
  /\ op = "idle"
  /\ arg = None
  /\ err = NoError
  /\ ret = None

Init ==
  /\ inv = EmptyInventory
  /\ payer \in {BankAccount("Shaik", b) : b \in OpeningBalances}
  /\ Idle
  /\ ledger = [on |-> FALSE, net |-> EmptyDict]

AddProduct(p) ==
  LET r == add_product(inv, p)
  IN /\ op = "idle"
     /\ inv' = r.inv
     /\ op' = "add_product"
     /\ arg' = p
     /\ err' = r.err
     /\ ret' = None
     /\ ledger' = Book(ledger, p.sku, 0)
     /\ UNCHANGED payer

AddStock(sku, qty) ==
  LET r == add_stock(inv, sku, qty)
  IN /\ op = "idle"
     /\ get_stock(r.inv, sku) <= MaxStock
     /\ inv' = r.inv
     /\ op' = "add_stock"
     /\ arg' = OrderItem(sku, qty)
     /\ err' = r.err
     /\ ret' = None
     /\ ledger' = IF r.err = NoError THEN Book(ledger, sku, qty) ELSE ledger
     /\ UNCHANGED payer

RemoveStock(sku, qty) ==
  LET r == remove_stock(inv, sku, qty)
  IN /\ op = "idle"
     /\ inv' = r.inv
     /\ op' = "remove_stock"
     /\ arg' = OrderItem(sku, qty)
     /\ err' = r.err
     /\ ret' = None
     /\ ledger' = IF r.err = NoError THEN Book(ledger, sku, 0 - qty) ELSE ledger
     /\ UNCHANGED payer

Deposit(amount) ==
  LET r == deposit(payer, amount)
  IN /\ op = "idle"
     /\ r.payer.balance <= MaxBalance
     /\ payer' = r.payer
     /\ op' = "deposit"
     /\ arg' = amount
     /\ err' = r.err
     /\ ret' = None
     /\ UNCHANGED <<inv, ledger>>

Withdraw(amount) ==
  LET r == withdraw(payer, amount)
  IN /\ op = "idle"
     /\ payer' = r.payer
     /\ op' = "withdraw"
     /\ arg' = amount
     /\ err' = r.err
     /\ ret' = None
     /\ UNCHANGED <<inv, ledger>>

ProcessOrder(orders) ==
  /\ op = "idle"
  /\ \E order \in orders :
       \E r \in process_order(order, inv, payer) :
          /\ inv' = r.inv
          /\ payer' = r.payer
          /\ op' = "process_order"
          /\ arg' = order
          /\ err' = r.err
          /\ ret' = r.ret
  /\ UNCHANGED ledger

\* The caller takes the returned value or the propagated exception.
Return ==
  /\ op # "idle"
  /\ op' = "idle"
  /\ arg' = None
  /\ err' = NoError
  /\ ret' = None
  /\ UNCHANGED <<inv, payer, ledger>>

Next ==
  \/ \E p \in Products : AddProduct(p)
  \/ \E sku \in SKUs, qty \in QtyRange : AddStock(sku, qty)
  \/ \E sku \in SKUs, qty \in QtyRange : RemoveStock(sku, qty)
  \/ \E amount \in DepositAmounts : Deposit(amount)
  \/ \E amount \in WithdrawAmounts : Withdraw(amount)
  \/ ProcessOrder(Orders)
  \/ Return

Spec == Init /\ [][Next]_vars

\* ------------------------------------------- the inventory on its own
InitInv ==
  /\ inv = EmptyInventory
  /\ payer = BankAccount("Shaik", 0)
  /\ Idle
  /\ ledger = [on |-> TRUE, net |-> EmptyDict]

NextInv ==
  \/ \E p \in Products : AddProduct(p)
  \/ \E sku \in SKUs, qty \in QtyRange : AddStock(sku, qty)
  \/ \E sku \in SKUs, qty \in QtyRange : RemoveStock(sku, qty)
  \/ Return

SpecInv == InitInv /\ [][NextInv]_vars

\* ------------------------------------------------- the demo entry point
DemoProducts ==
  <<Product("SKU1", "Pen", 10500, "stationery"),
    Product("SKU2", "Book", 99000, "books")>>

DemoInventory ==
  LET i1 == add_product(EmptyInventory, DemoProducts[1]).inv
      i2 == add_product(i1, DemoProducts[2]).inv
      i3 == add_stock(i2, "SKU1", 10).inv
  IN add_stock(i3, "SKU2", 5).inv

DemoOrder ==
  Order("ORD-001", <<OrderItem("SKU1", 2), OrderItem("SKU2", 1)>>, Some(SAVE10))

InitDemo ==
  /\ inv = DemoInventory
  /\ payer = BankAccount("Shaik", 500000)
  /\ Idle
  /\ ledger = [on |-> FALSE, net |-> EmptyDict]

DemoCodes == {None, Some(SAVE10), Some(FLAT50)}

DemoOrders == OrdersWith(DemoCodes)

\* The script processes one order and ends.
NextDemo == ProcessOrder(DemoOrders)

SpecDemo == InitDemo /\ [][NextDemo]_vars

\* ------------------------------------------------ apply_coupon on its own
Subtotals == {k * 10000 : k \in (0 - 2)..MaxSubtotal}

Codes ==
  {None, Some(<<>>), Some(SAVE10), Some(FLAT50),
   Some(<<" ", "s", "a", "v", "e", "1", "0">>),
   Some(<<"f", "l", "a", "t", "5", "0", " ">>),
   Some(<<"B", "O", "G", "U", "S">>),
   Some(<<" ", " ">>)}

ApplyCoupon(subtotal, code) ==
  /\ op = "idle"
  /\ op' = "apply_coupon"
  /\ arg' = [subtotal |-> subtotal, code |-> code]
  /\ err' = NoError
  /\ ret' = Some(apply_coupon(subtotal, code))
  /\ UNCHANGED <<inv, payer, ledger>>

NextCoupon ==
  \/ \E subtotal \in Subtotals, code \in Codes : ApplyCoupon(subtotal, code)
  \/ Return

SpecCoupon == Init /\ [][NextCoupon]_vars

\* ---------------------------------------------------- claim vocabulary
Called(name) == op = "idle" /\ op' = name

Stocks(i) == [sku \in SKUs |-> get_stock(i, sku)]

RECURSIVE QtyOrdered(_, _)
QtyOrdered(items, sku) ==
  IF items = <<>> THEN 0
  ELSE (IF Head(items).sku = sku THEN Head(items).qty ELSE 0) + QtyOrdered(Tail(items), sku)

RECURSIVE PriceSum(_, _)
PriceSum(items, catalog) ==
  IF items = <<>> THEN 0
  ELSE Head(items).qty * catalog[Head(items).sku].price + PriceSum(Tail(items), catalog)

Unknown(i, item) == item.sku \notin DOMAIN i.catalog

Short(i, item) == item.qty > get_stock(i, item.sku)

Offending(i, items) == {k \in 1..Len(items) : Unknown(i, items[k]) \/ Short(i, items[k])}

FirstOffending(i, items) ==
  CHOOSE k \in Offending(i, items) : \A j \in Offending(i, items) : k <= j

GrandTotals(i, order) ==
  LET d == apply_coupon(PriceSum(order.items, i.catalog), order.coupon_code)
  IN {d + t : t \in compute_tax(d)}

\* ------------------------------------------------------------------- C1
\* C1: whenever a process_order call fails, every stock count and the
\* payer's balance are what they were before the call.
C1_AllOrNothing ==
  [][(Called("process_order") /\ err' # NoError)
       => (Stocks(inv') = Stocks(inv) /\ payer'.balance = payer.balance)]_vars

\* ------------------------------------------------------------------- C2
\* C2: every stock count is a non-negative integer and every identifier
\* with a stock entry has a catalog entry.
C2_InventoryInvariant ==
  \A sku \in DOMAIN inv.stock :
     /\ inv.stock[sku] \in Nat
     /\ sku \in DOMAIN inv.catalog

\* A process_order call that failed part-way through its decrements, with a
\* stock count brought to zero.
C2_Witness ==
  /\ op = "process_order"
  /\ err = Raise("ValueError", "insufficient stock")
  /\ \E sku \in DOMAIN inv.stock : inv.stock[sku] = 0

\* ------------------------------------------------------------------- C3
\* C3: the balance of an account opened with a balance >= 0 is >= 0 in
\* every state.
C3_BalanceInvariant == payer.balance >= 0

\* A successful order that took the whole balance.
C3_Witness ==
  /\ op = "process_order"
  /\ err = NoError
  /\ payer.balance = 0

\* ------------------------------------------------------------------- C4
\* C4: items are checked in order; the first item that is unknown or short
\* of stock decides the error (KeyError if unknown, ValueError if short);
\* if every item passes and the grand total exceeds the balance the call
\* fails with a ValueError; in all three cases nothing has changed.
\* (On a rounding tie there are two possible grand totals; a receipt shows
\* which one the call computed.)
C4_RejectsBeforeMutation ==
  [][Called("process_order") =>
       LET items == arg'.items
           same == inv' = inv /\ payer' = payer
       IN IF Offending(inv, items) # {}
          THEN LET it == items[FirstOffending(inv, items)]
               IN /\ err'.type = (IF Unknown(inv, it) THEN "KeyError" ELSE "ValueError")
                  /\ same
          ELSE \A g \in GrandTotals(inv, arg') :
                  (g > payer.balance /\ (ret' = None \/ ret'[1].grand_total = g))
                     => (err'.type = "ValueError" /\ same)]_vars

\* An order whose first item passes and whose second item is unknown.
C4_Witness ==
  /\ op = "process_order"
  /\ Len(arg.items) = 2
  /\ arg.items[1].sku \in DOMAIN inv.catalog
  /\ arg.items[1].qty \in 1..get_stock(inv, arg.items[1].sku)
  /\ arg.items[2].sku \notin DOMAIN inv.catalog
  /\ err.type = "KeyError"

\* ------------------------------------------------------------------- C5
Demo_Receipt ==
  [order_id |-> "ORD-001",
   items |-> <<OrderItem("SKU1", 2), OrderItem("SKU2", 1)>>,
   subtotal |-> 120000,
   discounted |-> 108000,
   tax |-> 19440,
   grand_total |-> 127440,
   coupon_code |-> SAVE10]

Discounted(subtotal, code) ==
  IF code = Some(SAVE10) THEN (subtotal * 9) \div 10
  ELSE IF code = Some(FLAT50) /\ subtotal >= 200000 THEN subtotal - 50000
  ELSE subtotal

\* C5: the receipt of every successful process_order call has subtotal =
\* sum of quantity x unit price, discounted = the couponed subtotal, tax =
\* 18% of discounted rounded to the cent, grand_total = discounted + tax;
\* the demo order on the demo inventory yields 120.0, 108.0, 19.44, 127.44.
C5_ReceiptArithmetic ==
  (op = "process_order" /\ err = NoError) =>
     LET r == ret[1]
     IN /\ r.subtotal = PriceSum(arg.items, inv.catalog)
        /\ r.discounted = Discounted(r.subtotal, arg.coupon_code)
        /\ r.tax % 10 = 0
        /\ 100 * r.tax - 18 * r.discounted \in (0 - 500)..500
        /\ r.grand_total = r.discounted + r.tax
        /\ arg = DemoOrder => r = Demo_Receipt

\* The demo order processed on the demo inventory (stock 10 and 5 before).
C5_Witness ==
  /\ op = "process_order"
  /\ err = NoError
  /\ arg = DemoOrder
  /\ inv.stock = [SKU1 |-> 8, SKU2 |-> 4]
  /\ inv.catalog = [SKU1 |-> DemoProducts[1], SKU2 |-> DemoProducts[2]]

\* ------------------------------------------------------------------- C6
\* C6: add_stock succeeds exactly when q > 0 and the sku is in the catalog
\* and then raises the stock by q; remove_stock succeeds exactly when
\* 0 < q <= stock and then lowers it by q; a failing call (ValueError for
\* q <= 0 or q above stock, KeyError for an unknown sku) changes no stock;
\* so the stock equals successful additions minus successful removals.
C6_StockAccounting ==
  [][LET sku == arg'.sku
         q == arg'.qty
         others == \A x \in SKUs \ {sku} : get_stock(inv', x) = get_stock(inv, x)
         tally == \A x \in DOMAIN inv'.stock : get_stock(inv', x) = ledger'.net[x]
     IN /\ Called("add_stock") =>
             /\ (err' = NoError) <=> (q > 0 /\ sku \in DOMAIN inv.catalog)
             /\ err' = NoError => get_stock(inv', sku) = get_stock(inv, sku) + q /\ others
             /\ err' # NoError =>
                  /\ inv' = inv
                  /\ err'.type = (IF q <= 0 THEN "ValueError" ELSE "KeyError")
             /\ tally
        /\ Called("remove_stock") =>
             /\ (err' = NoError) <=> (q > 0 /\ q <= get_stock(inv, sku))
             /\ err' = NoError => get_stock(inv', sku) = get_stock(inv, sku) - q /\ others
             /\ err' # NoError => inv' = inv /\ err'.type = "ValueError"
             /\ tally]_vars

\* A second successful add_stock on a product that already had stock.
C6_Witness ==
  /\ op = "add_stock"
  /\ err = NoError
  /\ get_stock(inv, arg.sku) > arg.qty
  /\ ledger.net[arg.sku] = get_stock(inv, arg.sku)

\* ------------------------------------------------------------------- C7
Save10Codes == {Some(SAVE10), Some(<<" ", "s", "a", "v", "e", "1", "0">>)}

Flat50Codes == {Some(FLAT50), Some(<<"f", "l", "a", "t", "5", "0", " ">>)}

CouponRule(subtotal, result, save10, flat50) ==
  /\ save10 => result = subtotal - subtotal \div 10
  /\ (flat50 /\ subtotal >= 200000) => result = subtotal - 50000
  /\ (flat50 /\ subtotal < 200000) => result = subtotal
  /\ (~save10 /\ ~flat50) => result = subtotal
  /\ result >= 0

\* C7 as stated: for every subtotal and every code, no code or a code
\* other than SAVE10 and FLAT50 leaves the subtotal unchanged, SAVE10 takes
\* 10% off, FLAT50 takes 50 off from 200 up, and the result is never
\* negative.
C7_AsStated ==
  op = "apply_coupon" =>
     CouponRule(arg.subtotal, ret[1], arg.code = Some(SAVE10), arg.code = Some(FLAT50))

\* C7 amended: the same for every subtotal >= 0, a code being SAVE10 or
\* FLAT50 when it is so after trimming blanks and upper-casing.
C7_Amended ==
  (op = "apply_coupon" /\ arg.subtotal >= 0) =>
     CouponRule(arg.subtotal, ret[1], arg.code \in Save10Codes, arg.code \in Flat50Codes)

\* FLAT50 applied exactly at its minimum subtotal.
C7_Witness ==
  /\ op = "apply_coupon"
  /\ arg.subtotal = 200000
  /\ arg.code = Some(FLAT50)
  /\ ret = Some(150000)

\* ------------------------------------------------------------------- C8
\* C8: deposit(a) raises TypeError for a non-numeric a, ValueError for
\* a <= 0, else adds exactly a; withdraw(a) raises ValueError for a <= 0 or
\* a > balance, else subtracts exactly a (a = balance allowed); a failing
\* call leaves the balance unchanged.
C8_BankAccount ==
  [][/\ Called("deposit") =>
          LET a == arg'
          IN IF a.kind # "num"
             THEN err'.type = "TypeError" /\ payer' = payer
             ELSE IF a.val <= 0
             THEN err'.type = "ValueError" /\ payer' = payer
             ELSE err' = NoError /\ payer'.balance = payer.balance + a.val
     /\ Called("withdraw") =>
          LET a == arg'
          IN IF a <= 0 \/ a > payer.balance
             THEN err'.type = "ValueError" /\ payer' = payer
             ELSE err' = NoError /\ payer'.balance = payer.balance - a]_vars

\* The whole balance withdrawn.
C8_Witness ==
  /\ op = "withdraw"
  /\ err = NoError
  /\ arg > 0
  /\ payer.balance = 0

\* ------------------------------------------------------------------- C9
\* C9: a successful process_order lowers the balance by the receipt's
\* grand_total and the stock of each identifier by the total quantity
\* ordered for it, leaves other stock and the catalog unchanged; the charge
\* comes before the first decrement, so a call that changed any stock has
\* charged the payer.
C9_SuccessEffect ==
  [][Called("process_order") =>
       /\ err' = NoError =>
            /\ payer'.balance = payer.balance - ret'[1].grand_total
            /\ \A sku \in SKUs :
                  get_stock(inv', sku) = get_stock(inv, sku) - QtyOrdered(arg'.items, sku)
            /\ DOMAIN inv'.stock = DOMAIN inv.stock
            /\ inv'.catalog = inv.catalog
       /\ inv' # inv => payer'.balance < payer.balance]_vars

\* A successful order naming the same identifier in two items.
C9_Witness ==
  /\ op = "process_order"
  /\ err = NoError
  /\ Len(arg.items) = 2
  /\ arg.items[1].sku = arg.items[2].sku

\* ------------------------------------------------------------------ C10
\* C10: process_order returns a receipt only for an order with at least one
\* item, every quantity >= 1 and a grand total > 0; an order with no items,
\* or one that passes the item checks with a grand total <= 0, fails with
\* withdraw's ValueError and changes nothing; a successful order lowers the
\* balance and raises no stock.
C10_ReceiptOnlyForPositiveOrders ==
  [][Called("process_order") =>
       LET items == arg'.items
           refused == /\ err' = Raise("ValueError", "Withdraw must be positive")
                      /\ inv' = inv
                      /\ payer' = payer
       IN /\ err' = NoError =>
               /\ Len(items) >= 1
               /\ \A k \in 1..Len(items) : items[k].qty >= 1
               /\ ret'[1].grand_total > 0
               /\ payer'.balance < payer.balance
               /\ \A sku \in SKUs : get_stock(inv', sku) <= get_stock(inv, sku)
          /\ items = <<>> => refused
          /\ (Offending(inv, items) = {} /\ \A g \in GrandTotals(inv, arg') : g <= 0)
                => refused]_vars

\* An order with no items, refused by withdraw.
C10_Witness ==
  /\ op = "process_order"
  /\ arg.items = <<>>
  /\ err = Raise("ValueError", "Withdraw must be positive")

====
